---------------------------- MODULE Spec2Model ----------------------------
(***************************************************************************)
(* Model of src/cidr.go: the hardware size table, cidrBlockSize,           *)
(* selectCIDRBlock and the part of printCidrBlock that drives them.        *)
(*                                                                         *)
(* Strings that the code inspects are modelled by their structure:         *)
(*   - a network name is a sequence of characters (strings.HasSuffix),     *)
(*   - a CIDR text "a.b.c.d/n" is a record [addr |-> <<a,b,c,d>>,          *)
(*     bits |-> n]; a text is not valid CIDR notation when it has not four *)
(*     octets, an octet above 255, or a prefix length outside 0..32.       *)
(* An IP address is a sequence of four octets; masks work octet by octet,  *)
(* as net.IP.Mask does.                                                    *)
(***************************************************************************)
EXTENDS Integers, Sequences, FiniteSets, TLC

\* ------------------------------------------------------------------ bounds
\* Longest route list the listing step can return.
MaxRoutes == 2
\* Of the values rand.Intn(n) can return, the DrawSpread lowest and the
\* DrawSpread highest are explored.
DrawSpread == 2
\* Cap on the number of draws of the sampling loop.
MaxDraws == 2

\* ------------------------------------------------------- addresses, masks
IPv4(a, b, c, d) == <<a, b, c, d>>

legacyNetwork == IPv4(10, 240, 0, 0)

ProbeLow == IPv4(10, 240, 1, 1)

ProbeHigh == IPv4(10, 240, 250, 250)

Min(a, b) == IF a < b THEN a ELSE b

Max(a, b) == IF a > b THEN a ELSE b

\* Number of bits of octet i (1..4) that a mask of n ones keeps.
KeptBits(n, i) == Max(0, Min(8, n - 8 * (i - 1)))

\* net.IP.Mask with a CIDR mask of n ones.
Mask(ip, n) == [i \in 1..4 |-> ip[i] - (ip[i] % (2 ^ (8 - KeptBits(n, i))))]

\* net.IP.Equal
Equal(ip1, ip2) == ip1 = ip2

\* (*net.IPNet).Contains
Contains(ipNet, ip) == Mask(ip, ipNet.Bits) = ipNet.IP

\* byte(x)
Byte(x) == x % 256

\* ------------------------------------------------------------- CIDR texts
ValidCIDRText(text) ==
    /\ Len(text.addr) = 4
    /\ \A i \in 1..Len(text.addr) : text.addr[i] \in 0..255
    /\ text.bits \in 0..32

NoIPNet == [IP |-> <<>>, Bits |-> -1]

\* net.ParseCIDR: the network is the address with its host bits cleared.
ParseCIDR(text) ==
    IF ValidCIDRText(text)
    THEN [err |-> FALSE, ipNet |-> [IP |-> Mask(text.addr, text.bits), Bits |-> text.bits]]
    ELSE [err |-> TRUE, ipNet |-> NoIPNet]

\* (*net.IPNet).String
CIDRString(ipNet) == [addr |-> ipNet.IP, bits |-> ipNet.Bits]

\* fmt.Sprintf("%s/%d", ip.String(), size)
Sprintf(ip, size) == [addr |-> ip, bits |-> size]

\* The empty string returned next to an error.
EmptyString == [addr |-> <<>>, bits |-> -1]

\* strings.HasSuffix
HasSuffix(s, suffix) ==
    /\ Len(s) >= Len(suffix)
    /\ SubSeq(s, Len(s) - Len(suffix) + 1, Len(s)) = suffix

\* --------------------------------------------------------- hardware table
\* The initial contents of the package variable tpuDeviceNetworkSizes.
InitialSizes ==
    ("v2-8" :> 29) @@ ("v2-32" :> 29) @@ ("v2-128" :> 27) @@ ("v2-256" :> 26) @@
    ("v2-512" :> 25) @@ ("v3-8" :> 29) @@ ("v3-32" :> 29) @@ ("v3-64" :> 28) @@
    ("v3-128" :> 27) @@ ("v3-256" :> 26) @@ ("v3-512" :> 25) @@ ("v3-1024" :> 24)

\* ------------------------------------------------------------------ inputs
\* Values of the -tpu flag: the identifiers of the table and an absent one.
HardwareTypes == DOMAIN InitialSizes \cup {"v9-999"}

\* Value of the -network flag: "default" (the flag's default), written "d".
\* The routes belong to the networks ".../d", which it is a suffix of, and
\* ".../n", which it is not.
NetworkFlags == {<<"d">>}

NetDefault == <<"p", "/", "d">>

NetOther == <<"p", "/", "n">>

Text(a, b, c, d, n) == [addr |-> <<a, b, c, d>>, bits |-> n]

Route(net, text) == [Network |-> net, DestRange |-> text]

\* The routes the listing can return.
Routes ==
    { Route(NetDefault, Text(10, 240, 0, 0, 16)),
      Route(NetDefault, Text(10, 240, 9, 9, 12)),
      Route(NetDefault, Text(10, 240, 0, 0, 8)),
      Route(NetDefault, Text(10, 0, 0, 0, 7)),
      Route(NetDefault, Text(10, 240, 0, 0, 20)),
      Route(NetDefault, Text(10, 240, 254, 248, 30)),
      Route(NetDefault, Text(10, 240, 256, 0, 24)),
      Route(NetOther, Text(10, 240, 0, 0, 16)),
      Route(NetOther, [addr |-> <<10, 240, 0>>, bits |-> 16]) }

RouteLists == UNION {[1..n -> Routes] : n \in 0..MaxRoutes}

\* The values of rand.Intn(n) that are explored.
Intn(n) == (0..(Min(DrawSpread, n) - 1)) \cup (Max(0, n - DrawSpread)..(n - 1))

\* ------------------------------------------------------------------- state
VARIABLES
    tpuDeviceNetworkSizes,  \* the package-level table
    hardwareType,           \* flag -tpu
    network,                \* flag -network
    routes,                 \* routeItems
    pc,                     \* position in printCidrBlock / selectCIDRBlock
    cidrBits,               \* the cidrBlockSize argument of selectCIDRBlock
    idx,                    \* index of the route the filter loop is at
    cidrBlocks,             \* the retained blocks
    thirdOctet,
    fourthOctet,
    j,                      \* index of the block the inner loop is at
    draws,                  \* iterations of the sampling loop started
    result,                 \* the CIDR string returned
    err                     \* the error returned

vars == <<tpuDeviceNetworkSizes, hardwareType, network, routes, pc, cidrBits, idx,
          cidrBlocks, thirdOctet, fourthOctet, j, draws, result, err>>

\* ------------------------------------------------------------ cidrBlockSize
cidrBlockSizeNoPresenceCheck(hw) ==
    [ones |-> IF hw \in DOMAIN tpuDeviceNetworkSizes THEN tpuDeviceNetworkSizes[hw] ELSE 0,
     err |-> "none"]

cidrBlockSize(hw) ==
    IF hw \in DOMAIN tpuDeviceNetworkSizes
    THEN [ones |-> tpuDeviceNetworkSizes[hw], err |-> "none"]
    ELSE [ones |-> 0, err |-> "UnknownHardwareType"]

\* ------------------------------------------------- selectCIDRBlock, filter
\* if !strings.HasSuffix(i.Network, network) { continue }
SkipsNetworkNever(route, net) == FALSE

SkipsNetwork(route, net) == ~HasSuffix(route.Network, net)

\* if maskSize < 8 { continue }
TooBroadNever(maskSize) == FALSE

TooBroadOffByOne(maskSize) == maskSize <= 8

TooBroad(maskSize) == maskSize < 8

\* if legacyNetwork.Equal(ipNet.IP) && maskSize <= 16
IsLegacyStrict(ipNet) == Equal(legacyNetwork, ipNet.IP) /\ ipNet.Bits < 16

IsLegacy(ipNet) == Equal(legacyNetwork, ipNet.IP) /\ ipNet.Bits <= 16

\* if maskSize <= 16 && ipNet.Contains(10.240.1.1) && ipNet.Contains(10.240.250.250)
CoversRange(ipNet) ==
    /\ ipNet.Bits <= 16
    /\ Contains(ipNet, ProbeLow)
    /\ Contains(ipNet, ProbeHigh)

Outcome(kind, e, block) == [kind |-> kind, err |-> e, block |-> block]

RouteOutcomeSkipMalformed(route, net) ==
    IF SkipsNetwork(route, net) THEN Outcome("continue", "none", NoIPNet)
    ELSE LET parsed == ParseCIDR(route.DestRange) IN
         IF parsed.err THEN Outcome("continue", "none", NoIPNet)
         ELSE IF TooBroad(parsed.ipNet.Bits) THEN Outcome("continue", "none", NoIPNet)
         ELSE IF IsLegacy(parsed.ipNet)
              THEN Outcome("return", "LegacyNetworkUnsupported", NoIPNet)
         ELSE IF CoversRange(parsed.ipNet)
              THEN Outcome("return", "RangeExhausted", NoIPNet)
         ELSE Outcome("append", "none", parsed.ipNet)

\* One iteration of the loop over routes.
RouteOutcome(route, net) ==
    IF SkipsNetwork(route, net) THEN Outcome("continue", "none", NoIPNet)
    ELSE LET parsed == ParseCIDR(route.DestRange) IN
         IF parsed.err THEN Outcome("return", "MalformedRoute", NoIPNet)
         ELSE IF TooBroad(parsed.ipNet.Bits) THEN Outcome("continue", "none", NoIPNet)
         ELSE IF IsLegacy(parsed.ipNet)
              THEN Outcome("return", "LegacyNetworkUnsupported", NoIPNet)
         ELSE IF CoversRange(parsed.ipNet)
              THEN Outcome("return", "RangeExhausted", NoIPNet)
         ELSE Outcome("append", "none", parsed.ipNet)

\* The whole loop over routes as a function of the route list: the error it
\* returns, if any, and the blocks retained when it ends.
RECURSIVE RunFilter(_, _, _)
RunFilter(rs, net, blocks) ==
    IF rs = <<>> THEN [err |-> "none", blocks |-> blocks]
    ELSE LET o == RouteOutcome(Head(rs), net) IN
         IF o.kind = "return" THEN [err |-> o.err, blocks |-> blocks]
         ELSE IF o.kind = "append" THEN RunFilter(Tail(rs), net, Append(blocks, o.block))
         ELSE RunFilter(Tail(rs), net, blocks)

\* ----------------------------------------------- selectCIDRBlock, sampling
\* fourthOctetIncrement := 1 << (32 - cidrBlockSize)
fourthOctetIncrement == 2 ^ (32 - cidrBits)

\* thirdOctet := byte(rand.Intn(254) + 1), given the value rand.Intn returned
ThirdOctetNoOffset(r) == Byte(r)

ThirdOctetOf(r) == Byte(r + 1)

\* The argument of the second rand.Intn.
FourthOctetRange == (255 \div fourthOctetIncrement) * fourthOctetIncrement + 1

candidateIPAddress == IPv4(10, 240, thirdOctet, fourthOctet)

\* Where the inner loop goes after block jj contained the candidate: the
\* unlabelled continue moves on to the next block.
AfterContainedRedraw(jj) == [pc |-> "draw", j |-> 1]

AfterContained(jj) == [pc |-> "check", j |-> jj + 1]

\* Lines 75-83: the candidate is formatted, parsed again and the parsed
\* network is formatted.
ConstructCIDRUnparsed(ip, size) == [cidr |-> Sprintf(ip, size), err |-> "none"]

ConstructCIDR(ip, size) ==
    LET parsed == ParseCIDR(Sprintf(ip, size)) IN
    IF parsed.err
    THEN [cidr |-> EmptyString, err |-> "MalformedConstructedCIDR"]
    ELSE [cidr |-> CIDRString(parsed.ipNet), err |-> "none"]

\* ----------------------------------------------------------------- actions
Init ==
    /\ tpuDeviceNetworkSizes = InitialSizes
    /\ hardwareType \in HardwareTypes
    /\ network \in NetworkFlags
    /\ routes = <<>>
    /\ pc = "list"
    /\ cidrBits = 0
    /\ idx = 0
    /\ cidrBlocks = <<>>
    /\ thirdOctet = 0
    /\ fourthOctet = 0
    /\ j = 0
    /\ draws = 0
    /\ result = EmptyString
    /\ err = "none"

\* printCidrBlock: the route listing returns its pages, flattened.
ListRoutes ==
    /\ pc = "list"
    /\ routes' \in RouteLists
    /\ pc' = "size"
    /\ UNCHANGED <<tpuDeviceNetworkSizes, hardwareType, network, cidrBits, idx,
                   cidrBlocks, thirdOctet, fourthOctet, j, draws, result, err>>

\* printCidrBlock: cidrBlockSize(tpuHardware), then the call of selectCIDRBlock.
ResolveSize ==
    /\ pc = "size"
    /\ LET r == cidrBlockSize(hardwareType) IN
       IF r.err # "none"
       THEN /\ pc' = "done"
            /\ err' = r.err
            /\ UNCHANGED <<cidrBits, idx>>
       ELSE /\ pc' = "filter"
            /\ cidrBits' = r.ones
            /\ idx' = 1
            /\ UNCHANGED err
    /\ UNCHANGED <<tpuDeviceNetworkSizes, hardwareType, network, routes, cidrBlocks,
                   thirdOctet, fourthOctet, j, draws, result>>

\* selectCIDRBlock: one iteration of the loop over routes.
FilterRoute ==
    /\ pc = "filter"
    /\ idx <= Len(routes)
    /\ LET o == RouteOutcome(routes[idx], network) IN
       CASE o.kind = "return" ->
              /\ pc' = "done"
              /\ err' = o.err
              /\ result' = EmptyString
              /\ UNCHANGED <<idx, cidrBlocks>>
         [] o.kind = "append" ->
              /\ cidrBlocks' = Append(cidrBlocks, o.block)
              /\ idx' = idx + 1
              /\ UNCHANGED <<pc, err, result>>
         [] OTHER ->
              /\ idx' = idx + 1
              /\ UNCHANGED <<pc, err, result, cidrBlocks>>
    /\ UNCHANGED <<tpuDeviceNetworkSizes, hardwareType, network, routes, cidrBits,
                   thirdOctet, fourthOctet, j, draws>>

\* selectCIDRBlock: the loop over routes is over; the increment is computed
\* and the random source seeded.
StartSampling ==
    /\ pc = "filter"
    /\ idx > Len(routes)
    /\ pc' = "draw"
    /\ UNCHANGED <<tpuDeviceNetworkSizes, hardwareType, network, routes, cidrBits, idx,
                   cidrBlocks, thirdOctet, fourthOctet, j, draws, result, err>>

\* selectCIDRBlock: an iteration of the sampling loop draws the two octets.
Draw ==
    /\ pc = "draw"
    /\ draws < MaxDraws
    /\ \E r3 \in Intn(254), r4 \in Intn(FourthOctetRange) :
          /\ thirdOctet' = ThirdOctetOf(r3)
          /\ fourthOctet' = Byte(r4)
    /\ draws' = draws + 1
    /\ j' = 1
    /\ pc' = "check"
    /\ UNCHANGED <<tpuDeviceNetworkSizes, hardwareType, network, routes, cidrBits, idx,
                   cidrBlocks, result, err>>

\* selectCIDRBlock: one iteration of the inner loop over the retained blocks.
CheckBlock ==
    /\ pc = "check"
    /\ j <= Len(cidrBlocks)
    /\ IF Contains(cidrBlocks[j], candidateIPAddress)
       THEN /\ pc' = AfterContained(j).pc
            /\ j' = AfterContained(j).j
       ELSE /\ pc' = "check"
            /\ j' = j + 1
    /\ UNCHANGED <<tpuDeviceNetworkSizes, hardwareType, network, routes, cidrBits, idx,
                   cidrBlocks, thirdOctet, fourthOctet, draws, result, err>>

\* selectCIDRBlock: after the inner loop the block is constructed and returned.
Construct ==
    /\ pc = "check"
    /\ j > Len(cidrBlocks)
    /\ LET c == ConstructCIDR(candidateIPAddress, cidrBits) IN
          /\ result' = c.cidr
          /\ err' = c.err
    /\ pc' = "done"
    /\ UNCHANGED <<tpuDeviceNetworkSizes, hardwareType, network, routes, cidrBits, idx,
                   cidrBlocks, thirdOctet, fourthOctet, j, draws>>

Next ==
    \/ ListRoutes
    \/ ResolveSize
    \/ FilterRoute
    \/ StartSampling
    \/ Draw
    \/ CheckBlock
    \/ Construct

Spec == Init /\ [][Next]_vars

\* ------------------------------------------------------------------ claims
\* selectCIDRBlock was called and has returned.
Returned == pc = "done" /\ err # "UnknownHardwareType"

Succeeded == pc = "done" /\ err = "none"

\* The filter loop ended without an error.
FilterPassed == pc \in {"draw", "check"} \/ (Returned /\ idx > Len(routes))

Matches(r) == HasSuffix(r.Network, network)

Parsed(r) == ParseCIDR(r.DestRange)

CoversBothProbes(r) ==
    /\ ~Parsed(r).err
    /\ Contains(Parsed(r).ipNet, ProbeLow)
    /\ Contains(Parsed(r).ipNet, ProbeHigh)

\* A route of the target network that is malformed, legacy or covering.
HardError(r) ==
    /\ Matches(r)
    /\ \/ Parsed(r).err
       \/ /\ Parsed(r).ipNet.Bits \in 8..16
          /\ Parsed(r).ipNet.IP = legacyNetwork \/ CoversBothProbes(r)

NoEarlierHardError(i) == \A k \in 1..(i - 1) : ~HardError(routes[k])

Overlaps(a, b) == Contains(a, b.IP) \/ Contains(b, a.IP)

ReservedRange == [IP |-> legacyNetwork, Bits |-> 16]

\* C1: on success the returned block overlaps no retained conflict block:
\* neither contains the other's base address.
C1_NoOverlap ==
    Succeeded =>
        \A k \in 1..Len(cidrBlocks) :
            ~Overlaps(ParseCIDR(result).ipNet, cidrBlocks[k])

\* C2: on success, with a prefix length of the hardware table, the returned
\* block lies inside 10.240.0.0/16, has the requested prefix length, and its
\* third octet is in 1..254.
C2_InReservedRange ==
    Succeeded =>
        /\ cidrBits \in 24..29
        /\ Len(result.addr) = 4
        /\ Contains(ReservedRange, result.addr)
        /\ result.bits = cidrBits
        /\ result.addr[3] \in 1..254

\* The scenario of the spec: the only route is 10.240.0.0/16 of another
\* network, the prefix length is 29, and the call succeeds.
C2_Witness ==
    /\ Succeeded
    /\ Len(routes) = 1
    /\ ~Matches(routes[1])
    /\ routes[1].DestRange = Text(10, 240, 0, 0, 16)
    /\ cidrBits = 29
    /\ result.addr[3] = 254

LegacyRoute(r) ==
    /\ Matches(r)
    /\ ~Parsed(r).err
    /\ Parsed(r).ipNet.IP = legacyNetwork
    /\ Parsed(r).ipNet.Bits \in 8..16

\* C3: a route of the target network whose block has base address 10.240.0.0
\* and prefix length 8..16, with no earlier route raising a hard error, makes
\* the call fail with LegacyNetworkUnsupported and return no CIDR, whatever
\* the prefix length requested and whatever routes follow.
C3_LegacyRejected ==
    Returned =>
        \A i \in 1..Len(routes) :
            (LegacyRoute(routes[i]) /\ NoEarlierHardError(i)) =>
                /\ err = "LegacyNetworkUnsupported"
                /\ result = EmptyString

C3_Witness ==
    /\ Returned
    /\ Len(routes) = 2
    /\ LegacyRoute(routes[1])
    /\ routes[1].DestRange = Text(10, 240, 0, 0, 16)
    /\ HardError(routes[2])
    /\ ~LegacyRoute(routes[2])
    /\ err = "LegacyNetworkUnsupported"

\* C4 as stated: a route of the target network whose block contains both
\* probe addresses and whose prefix length is at most 16 (0..16) makes the
\* call fail with RangeExhausted.
C4_Original ==
    Returned =>
        \A i \in 1..Len(routes) :
            (Matches(routes[i]) /\ CoversBothProbes(routes[i])
                /\ Parsed(routes[i]).ipNet.Bits <= 16) =>
                err = "RangeExhausted"

CoveringRoute(r) ==
    /\ Matches(r)
    /\ CoversBothProbes(r)
    /\ Parsed(r).ipNet.Bits \in 8..16
    /\ Parsed(r).ipNet.IP # legacyNetwork

\* C4 amended: a route of the target network whose block contains both probe
\* addresses, whose prefix length is in 8..16 and whose base address is not
\* 10.240.0.0, with no earlier route raising a hard error, makes the call
\* fail with RangeExhausted and return no CIDR.
C4_RangeExhausted ==
    Returned =>
        \A i \in 1..Len(routes) :
            (CoveringRoute(routes[i]) /\ NoEarlierHardError(i)) =>
                /\ err = "RangeExhausted"
                /\ result = EmptyString

C4_Witness ==
    /\ Returned
    /\ Len(routes) = 2
    /\ ~Matches(routes[1])
    /\ CoveringRoute(routes[2])
    /\ Parsed(routes[2]).ipNet.Bits = 8
    /\ err = "RangeExhausted"

\* C5: the outcome of the filter (success or which error, and the conflict
\* set) is the outcome for the list with every route of another network
\* removed, so such routes never influence it.
C5_OtherNetworksIgnored ==
    (FilterPassed \/ Returned) =>
        LET r == RunFilter(SelectSeq(routes, Matches), network, <<>>) IN
        /\ err = r.err
        /\ cidrBlocks = r.blocks

C5_Witness ==
    /\ Succeeded
    /\ Len(routes) = 2
    /\ ~Matches(routes[1])
    /\ Parsed(routes[1]).err
    /\ Matches(routes[2])
    /\ Len(cidrBlocks) = 1

MalformedRoute(r) == Matches(r) /\ Parsed(r).err

\* C6: a malformed route of the target network aborts the call: an error and
\* the empty string are returned; the loop stopped at the first route raising
\* a hard error, later routes were not examined, and the error is
\* MalformedRoute unless an earlier route raised a legacy or exhausted error.
C6_MalformedAborts ==
    Returned =>
        \A i \in 1..Len(routes) :
            MalformedRoute(routes[i]) =>
                /\ err # "none"
                /\ result = EmptyString
                /\ idx <= i
                /\ HardError(routes[idx])
                /\ NoEarlierHardError(idx)
                /\ NoEarlierHardError(i) => (idx = i /\ err = "MalformedRoute")
                /\ err = "MalformedRoute" <=> MalformedRoute(routes[idx])

C6_Witness ==
    /\ Returned
    /\ Len(routes) = 2
    /\ MalformedRoute(routes[1])
    /\ LegacyRoute(routes[2])
    /\ err = "MalformedRoute"
    /\ idx = 1

Broad(r) == ~Parsed(r).err /\ Parsed(r).ipNet.Bits < 8

NotBroad(r) == ~Broad(r)

\* C7: a route with prefix length below 8 is never in the conflict set and
\* never raises the legacy or the exhausted error; the outcome is the one for
\* the list without such routes.
C7_BroadExcluded ==
    /\ \A k \in 1..Len(cidrBlocks) : cidrBlocks[k].Bits >= 8
    /\ (Returned /\ err \in {"LegacyNetworkUnsupported", "RangeExhausted"}) =>
            ~Broad(routes[idx])
    /\ (FilterPassed \/ Returned) =>
            LET r == RunFilter(SelectSeq(routes, NotBroad), network, <<>>) IN
            /\ err = r.err
            /\ cidrBlocks = r.blocks

C7_Witness ==
    /\ Succeeded
    /\ \E i \in 1..Len(routes) :
          /\ Matches(routes[i])
          /\ Broad(routes[i])
          /\ CoversBothProbes(routes[i])
          /\ Parsed(routes[i]).ipNet.Bits = 7

\* C8: cidrBlockSize returns the table's prefix length for an identifier of
\* the table, each of them in 24..29 ("v3-256" gives 26), and fails with
\* UnknownHardwareType and 0 for an absent identifier; the table never changes.
C8_SizeTable ==
    /\ tpuDeviceNetworkSizes = InitialSizes
    /\ pc \notin {"list", "size"} =>
          IF hardwareType \in DOMAIN InitialSizes
          THEN /\ cidrBits = InitialSizes[hardwareType]
               /\ cidrBits \in 24..29
               /\ hardwareType = "v3-256" => cidrBits = 26
               /\ err # "UnknownHardwareType"
          ELSE /\ err = "UnknownHardwareType"
               /\ cidrBits = 0
               /\ pc = "done"
               /\ result = EmptyString

C8_Witness ==
    /\ pc = "done"
    /\ hardwareType = "v9-999"
    /\ err = "UnknownHardwareType"
    /\ Len(routes) = 1

\* C9: on success the returned string parses and formats back to itself: its
\* host bits are zero, its fourth octet is a multiple of the increment inside
\* [0, (255 \div increment) * increment], also when the drawn octet is not.
C9_RoundTrip ==
    Succeeded =>
        /\ ~ParseCIDR(result).err
        /\ CIDRString(ParseCIDR(result).ipNet) = result
        /\ result.addr[4] % fourthOctetIncrement = 0
        /\ result.addr[4] \in 0..((255 \div fourthOctetIncrement) * fourthOctetIncrement)
        /\ result.addr[4] = fourthOctet - (fourthOctet % fourthOctetIncrement)

C9_Witness ==
    /\ Succeeded
    /\ cidrBits = 29
    /\ fourthOctet % fourthOctetIncrement # 0
    /\ result.addr[4] = 240

C10_Safety ==
    /\ draws <= 1
    /\ err # "NoAvailableBlock"
    /\ pc = "draw" => (draws = 0 /\ ENABLED Draw)
    /\ pc = "check" => (draws = 1 /\ j \in 1..(Len(cidrBlocks) + 1) /\ ENABLED Next)
    /\ (Returned /\ idx > Len(routes)) =>
          /\ err = "none"
          /\ draws = 1
          /\ cidrBits \in 24..29
          /\ thirdOctet \in {ThirdOctetOf(r) : r \in Intn(254)}
          /\ fourthOctet \in {Byte(r) : r \in Intn(FourthOctetRange)}
          /\ result = CIDRString([IP |-> Mask(candidateIPAddress, cidrBits),
                                  Bits |-> cidrBits])

\* Steps the sampling phase has left: one draw, one step per retained block,
\* and the return.
SamplingSteps ==
    CASE pc = "draw" -> Len(cidrBlocks) + 3
      [] pc = "check" -> Len(cidrBlocks) + 2 - j
      [] OTHER -> 0

\* C10: once the filter raised no error the call returns successfully after
\* exactly one draw: no redraw, no NoAvailableBlock, whether or not a retained
\* block contains the candidate; the result depends on the draw alone. Each
\* step of the sampling phase can be taken and brings the return closer.
C10_OneDraw ==
    /\ []C10_Safety
    /\ [][(pc \in {"draw", "check"}) => (SamplingSteps' < SamplingSteps)]_vars

C10_Witness ==
    /\ Succeeded
    /\ draws = 1
    /\ \E k \in 1..Len(cidrBlocks) : Contains(cidrBlocks[k], candidateIPAddress)

=============================================================================
